---- MODULE Spec2Model ----
(***************************************************************************)
(* PatinaSystemMonitor (src/src/app.rs): a TCP listener thread accepts     *)
(* connections, one handler thread per connection reads lines, converts    *)
(* the parsed statements to OwnedParsedLine and sends one batch per line   *)
(* over an mpsc channel; the UI thread's update() trims the time series,   *)
(* drains the channel into it and renders the cpu-total records.           *)
(*                                                                         *)
(* Time is counted in whole seconds since the Unix epoch.  The variables   *)
(* readLog, sent, lastTrim and late_accepts are history variables: they    *)
(* record what was read, what entered the channel, what the latest trim    *)
(* did and how many connections were accepted after the shutdown signal;   *)
(* no guard and no effect on the program state depends on their values,    *)
(* except that the number of lines a connection sends is bounded by the    *)
(* length of its readLog.                                                  *)
(***************************************************************************)
EXTENDS Integers, Sequences, FiniteSets, TLC

\* ------------------------------------------------------------ constants
WINDOW_LENGTH == 60

\* ------------------------------------------------------------ bounds
MaxConns == 2
MaxLines == 2
MaxTicks == 1
Clock0 == 100
ClockStep == 70

Conns == 1..MaxConns

\* ------------------------------------------------------------ helpers
RECURSIVE Flatten(_)
Flatten(ss) == IF ss = <<>> THEN <<>> ELSE Head(ss) \o Flatten(Tail(ss))

RECURSIVE SeqMap(_, _)
SeqMap(Op(_), s) == IF s = <<>> THEN <<>> ELSE <<Op(Head(s))>> \o SeqMap(Op, Tail(s))

LastN(s, n) == SubSeq(s, Len(s) - n + 1, Len(s))

\* ------------------------------------------------------------ wire input
\* ParsedLine.timestamp : Option<i64>
NoTimestamp == [some |-> FALSE, ns |-> 0]
Timestamp(n) == [some |-> TRUE, ns |-> n]

\* FieldValue / MeasurementValue : a kind and its payload
FV(kind, v) == [kind |-> kind, v |-> v]

\* An i64 / u64 payload is the integer hi * Radix + v, so that integers beyond
\* the 53 bits an f64 represents exactly can be written.
Radix == 1073741824
I64(hi, lo) == [kind |-> "I64", v |-> lo, hi |-> hi]
U64(hi, lo) == [kind |-> "U64", v |-> lo, hi |-> hi]

\* f64::MANTISSA_DIGITS is 53: every integer up to 2^53 is an f64; from 2^53
\* to 2^54 only the even ones are.  ExactHi is 2^53 \div Radix.
ExactHi == 8388608

\* A ParsedLine as influxdb_line_protocol hands it out.  tag_set is an
\* Option<Vec<(k, v)>> : None is modelled by some = FALSE.
ParsedLine(m, tags, fields, ts) ==
    [measurement |-> m, tag_set |-> tags, field_set |-> fields, timestamp |-> ts]

NoTags == [some |-> FALSE, v |-> <<>>]
Tags(kv) == [some |-> TRUE, v |-> kv]

\* One element of the iterator parse_lines(data) returns: Ok(ParsedLine) or Err.
ParseOk(pl) == <<"Ok", pl>>
ParseErr == <<"Err">>

\* Timestamps the producers put on the wire, chosen around the trim cutoffs:
\* already older than the first cutoff, exactly the cutoff after one tick,
\* and newer than every cutoff.
TsStale == Clock0 - 70
TsEdge == Clock0 + ClockStep - 66
TsNew == Clock0 + 20

CpuTotal(idle, ts) ==
    ParseOk(ParsedLine("cpu", Tags(<<<<"cpu", "cpu-total">>>>),
                       <<<<"usage_idle", FV("F64", idle)>>>>, ts))

Cpu0 ==
    ParseOk(ParsedLine("cpu", Tags(<<<<"host", "h1">>, <<"cpu", "cpu0">>>>),
                       <<<<"usage_idle", FV("F64", 50)>>>>, Timestamp(-1)))

Mem ==
    ParseOk(ParsedLine("mem", NoTags,
                       << <<"used", I64(0, 7)>>,
                          <<"delta", I64(0, -3)>>,
                          <<"total", U64(ExactHi, 1)>>,
                          <<"free", U64(ExactHi, 2)>>,
                          <<"used_percent", FV("F64", 12)>>,
                          <<"huge_pages", FV("Boolean", TRUE)>>,
                          <<"swap", FV("Boolean", FALSE)>>,
                          <<"unit", FV("String", "kB")>>,
                          <<"used", FV("String", "again")>> >>,
                       NoTimestamp))

\* What parse_lines yields for the lines a producer may send: a line is
\* modelled by the sequence of parse results of its statements.
LinesA ==
    { <<CpuTotal(90, Timestamp(TsStale))>>,
      <<CpuTotal(80, Timestamp(TsNew))>>,
      <<ParseErr>> }

LinesB ==
    { <<Mem, Cpu0>>,
      <<ParseErr, CpuTotal(70, Timestamp(TsEdge))>> }

LinesOf(c) == IF c % 2 = 1 THEN LinesA ELSE LinesB

\* ------------------------------------------------------------ state
VARIABLES
    clock,          \* SystemTime::now() as seconds since UNIX_EPOCH
    ticks,          \* number of clock advances so far
    listen_pc,      \* listener thread: "check" | "accept" | "closed"
    late_accepts,   \* history: connections accepted after the shutdown signal
    rx_alive,       \* the PatinaSystemMonitor (metrics_rx, listen_thread_tx) exists
    hpc,            \* per connection attempt: "none" | "refused" | handler thread position
    repaints,       \* ctx.request_repaint() calls of each handler
    channel,        \* items queued between metrics_tx and metrics_rx
    time_series,    \* PatinaSystemMonitor.time_series.data
    update_pc,      \* position inside update(): "idle" | "recv" | "render"
    debug_rows,     \* rows shown by show_debug_metrics
    plot_points,    \* points built by simple_plot
    readLog,        \* history: per connection, the lines read and the clock then
    sent,           \* history: every item that entered the channel, in arrival order
    lastTrim        \* history: what the latest trim_time_series did

vars == <<clock, ticks, listen_pc, late_accepts, rx_alive, hpc,
          repaints, channel, time_series, update_pc, debug_rows, plot_points,
          readLog, sent, lastTrim>>

listenerVars == <<listen_pc, late_accepts>>
handlerVars == <<hpc, repaints, readLog>>
consumerVars == <<time_series, update_pc, debug_rows, plot_points, lastTrim>>

NoTrim == [done |-> FALSE, before |-> <<>>, cutoff |-> 0, after |-> <<>>, drained |-> 0]

Init ==
    /\ clock = Clock0
    /\ ticks = 0
    /\ listen_pc = "check"
    /\ late_accepts = 0
    /\ rx_alive = TRUE
    /\ hpc = [c \in Conns |-> "none"]
    /\ repaints = [c \in Conns |-> 0]
    /\ channel = <<>>
    /\ time_series = <<>>
    /\ update_pc = "idle"
    /\ debug_rows = <<>>
    /\ plot_points = <<>>
    /\ readLog = [c \in Conns |-> <<>>]
    /\ sent = <<>>
    /\ lastTrim = NoTrim

\* ------------------------------------------------------------ record model
\* impl From<&FieldValue> for MeasurementValue: the kind and payload are kept.
MeasurementValueFrom(value) ==
    CASE value.kind = "I64" -> [kind |-> "I64", v |-> value.v, hi |-> value.hi]
      [] value.kind = "U64" -> [kind |-> "U64", v |-> value.v, hi |-> value.hi]
      [] value.kind = "F64" -> [kind |-> "F64", v |-> value.v]
      [] value.kind = "String" -> [kind |-> "String", v |-> value.v]
      [] value.kind = "Boolean" -> [kind |-> "Boolean", v |-> value.v]

\* `as f64` of the integer hi * Radix + lo, for integers below 2^54: the
\* nearest f64, a tie going to the even mantissa.  An f64 below Radix is
\* written as an integer, a larger one as its [hi, lo].
AsF64(hi, lo) ==
    IF hi = 0 THEN lo
    ELSE IF hi < ExactHi \/ lo % 2 = 0 THEN [hi |-> hi, lo |-> lo]
    ELSE IF ((lo - 1) \div 2) % 2 = 0 THEN [hi |-> hi, lo |-> lo - 1]
    ELSE IF lo + 1 = Radix THEN [hi |-> hi + 1, lo |-> 0]
    ELSE [hi |-> hi, lo |-> lo + 1]

\* Variant: every boolean is converted to 0.0.
F64FromBooleanZero(value) ==
    CASE value.kind = "I64" -> AsF64(value.hi, value.v)
      [] value.kind = "U64" -> AsF64(value.hi, value.v)
      [] value.kind = "F64" -> value.v
      [] value.kind = "String" -> 0
      [] value.kind = "Boolean" -> 0

\* impl From<&MeasurementValue> for f64
F64From(value) ==
    CASE value.kind = "I64" -> AsF64(value.hi, value.v)
      [] value.kind = "U64" -> AsF64(value.hi, value.v)
      [] value.kind = "F64" -> value.v
      [] value.kind = "String" -> 0
      [] value.kind = "Boolean" -> IF value.v THEN 1 ELSE 0

MapField(kv) == <<kv[1], MeasurementValueFrom(kv[2])>>

\* Variant: the fallback is unwrap_or_default() alone, the epoch itself.
OwnedParsedLineFromEpochDefault(parsed, now) ==
    [measurement |-> parsed.measurement,
     tags |-> IF parsed.tag_set.some THEN parsed.tag_set.v ELSE <<>>,
     fields |-> SeqMap(MapField, parsed.field_set),
     unix_timestamp |->
        IF parsed.timestamp.some /\ parsed.timestamp.ns >= 0
        THEN parsed.timestamp.ns
        ELSE 0]

\* impl From<&ParsedLine> for OwnedParsedLine, `now` being what SystemTime::now()
\* returns during the call.  try_into::<u64>() fails exactly on a negative i64.
OwnedParsedLineFrom(parsed, now) ==
    [measurement |-> parsed.measurement,
     tags |-> IF parsed.tag_set.some THEN parsed.tag_set.v ELSE <<>>,
     fields |-> SeqMap(MapField, parsed.field_set),
     unix_timestamp |->
        IF parsed.timestamp.some /\ parsed.timestamp.ns >= 0
        THEN parsed.timestamp.ns
        ELSE now]

\* OwnedParsedLine::offset_timestamp_secs_f64
offset_timestamp_secs_f64(self, timestamp_relative) ==
    self.unix_timestamp - timestamp_relative

\* OwnedParsedLine::get_field_as_f64: the first field of that name, or default
RECURSIVE FindField(_, _)
FindField(fields, name) ==
    IF fields = <<>> THEN <<>>
    ELSE IF Head(fields)[1] = name THEN <<Head(fields)[2]>>
    ELSE FindField(Tail(fields), name)

get_field_as_f64(self, name, default) ==
    LET found == FindField(self.fields, name)
    IN IF found = <<>> THEN default ELSE F64From(found[1])

\* ------------------------------------------------------------ handle_client
IsOk(x) == x[1] = "Ok"

\* parse_lines(data).filter(|x| x.is_ok()).map(|x| x.as_ref().unwrap().into()).collect()
ParseAndConvert(data, now) ==
    LET Into(x) == OwnedParsedLineFrom(x[2], now)
    IN SeqMap(Into, SelectSeq(data, IsOk))

\* ------------------------------------------------------------ TimeSeries
TimeSeriesDatum(ts, data) == [unix_timestamp |-> ts, data |-> data]

\* TimeSeries::push
push(data, unix_timestamp, x) == Append(data, TimeSeriesDatum(unix_timestamp, x))

\* Variant: the comparison is <=, a record at the cutoff is evicted too.
RECURSIVE trim_older_or_equal(_, _)
trim_older_or_equal(data, unix_timestamp) ==
    IF data # <<>> /\ Head(data).unix_timestamp <= unix_timestamp
    THEN trim_older_or_equal(Tail(data), unix_timestamp)
    ELSE data

\* Variant: `if` for `while`: at most one record is popped.
trim_front_once(data, unix_timestamp) ==
    IF data # <<>> /\ Head(data).unix_timestamp < unix_timestamp
    THEN Tail(data)
    ELSE data

\* Variant: retain(): every record older than the cutoff goes, wherever it is.
trim_retain_recent(data, unix_timestamp) ==
    LET Recent(d) == d.unix_timestamp >= unix_timestamp
    IN SelectSeq(data, Recent)

\* TimeSeries::trim_older_than
RECURSIVE trim_older_than(_, _)
trim_older_than(data, unix_timestamp) ==
    IF data # <<>> /\ Head(data).unix_timestamp < unix_timestamp
    THEN trim_older_than(Tail(data), unix_timestamp)
    ELSE data

\* trim_time_series: now_unix - WINDOW_LENGTH.mul_f64(1.1)
WindowStart(now_unix) == now_unix - (WINDOW_LENGTH * 11) \div 10

\* Variant: the lines of a batch are pushed last to first.
RECURSIVE PushAllReversed(_, _)
PushAllReversed(data, lines) ==
    IF lines = <<>> THEN data
    ELSE push(PushAllReversed(data, Tail(lines)), Head(lines).unix_timestamp, Head(lines))

\* for line in x.1 { self.time_series.push(line.unix_timestamp, line) }
RECURSIVE PushAll(_, _)
PushAll(data, lines) ==
    IF lines = <<>> THEN data
    ELSE PushAll(push(data, Head(lines).unix_timestamp, Head(lines)), Tail(lines))

\* ------------------------------------------------------------ queries
\* Variant: only the tag key is compared.
HasTagKeyOnly(tags, k, v) == \E i \in 1..Len(tags) : tags[i][1] = k

\* d.data.tags.iter().any(|(k, v)| k == "cpu" && v == "cpu-total")
HasTag(tags, k, v) == \E i \in 1..Len(tags) : tags[i][1] = k /\ tags[i][2] = v

\* .filter(|d| d.data.measurement == m).filter(|d| d.data.tags.iter().any(..))
Query(data, m, k, v) ==
    LET Match(d) == d.data.measurement = m /\ HasTag(d.data.tags, k, v)
    IN SelectSeq(data, Match)

\* the rows of show_debug_metrics
DebugRows(data) == Query(data, "cpu", "cpu", "cpu-total")

\* the plot_points of simple_plot
PlotPoints(data, now_unix) ==
    LET Point(d) == <<offset_timestamp_secs_f64(d.data, now_unix),
                      100 - get_field_as_f64(d.data, "usage_idle", 0)>>
    IN SeqMap(Point, Query(data, "cpu", "cpu", "cpu-total"))

\* ------------------------------------------------------------ the clock
Tick ==
    /\ ticks < MaxTicks
    /\ update_pc = "idle"
    /\ clock' = clock + ClockStep
    /\ ticks' = ticks + 1
    /\ UNCHANGED <<listenerVars, rx_alive, handlerVars, channel, consumerVars, sent>>

\* ------------------------------------------------------------ listener thread
\* while listen_thread_rx.try_recv() != Err(Disconnected) { for stream in incoming() ..
\* The condition is evaluated when the thread starts; TcpListener::incoming()
\* never returns None, so the for loop is never left.
ListenerCheck ==
    /\ listen_pc = "check"
    /\ listen_pc' = IF rx_alive THEN "accept" ELSE "closed"
    /\ UNCHANGED <<clock, ticks, late_accepts, rx_alive, handlerVars,
                   channel, consumerVars, sent>>

\* The connection attempts are numbered in the order incoming() returns them.
NextAttempt(c) == hpc[c] = "none" /\ \A d \in Conns : d < c => hpc[d] # "none"

\* Ok(stream) => thread::spawn(|| handle_client(stream, tx_clone, ctx_clone))
AcceptOk(c) ==
    /\ listen_pc = "accept"
    /\ NextAttempt(c)
    /\ hpc' = [hpc EXCEPT ![c] = "read"]
    /\ late_accepts' = IF rx_alive THEN late_accepts ELSE late_accepts + 1
    /\ UNCHANGED <<clock, ticks, listen_pc, rx_alive, repaints, readLog, channel,
                   consumerVars, sent>>

\* Variant: a failed accept ends the accept loop.
AcceptErrBreaks(c) ==
    /\ listen_pc = "accept"
    /\ NextAttempt(c)
    /\ hpc' = [hpc EXCEPT ![c] = "refused"]
    /\ listen_pc' = "closed"
    /\ UNCHANGED <<clock, ticks, late_accepts, rx_alive, repaints, readLog, channel,
                   consumerVars, sent>>

\* Err(e) => eprintln!("Connection failed: {}", e); the for loop goes on
AcceptErr(c) ==
    /\ listen_pc = "accept"
    /\ NextAttempt(c)
    /\ hpc' = [hpc EXCEPT ![c] = "refused"]
    /\ UNCHANGED <<clock, ticks, listenerVars, rx_alive, repaints, readLog, channel,
                   consumerVars, sent>>

\* ------------------------------------------------------------ handler threads
\* Variant: a line with a malformed statement ends the handler, nothing is sent.
HandlerLineStopOnMalformed(c) ==
    /\ hpc[c] = "read"
    /\ Len(readLog[c]) < MaxLines
    /\ \E data \in LinesOf(c) :
         LET lines == ParseAndConvert(data, clock)
         IN /\ readLog' = [readLog EXCEPT ![c] = Append(@, [data |-> data, now |-> clock])]
            /\ IF \E k \in 1..Len(data) : ~IsOk(data[k])
               THEN /\ hpc' = [hpc EXCEPT ![c] = "closed"]
                    /\ UNCHANGED <<channel, sent, repaints>>
               ELSE IF rx_alive
               THEN /\ channel' = Append(channel, <<c, lines>>)
                    /\ sent' = Append(sent, <<c, lines>>)
                    /\ repaints' = [repaints EXCEPT ![c] = @ + 1]
                    /\ UNCHANGED hpc
               ELSE /\ hpc' = [hpc EXCEPT ![c] = "gone"]
                    /\ UNCHANGED <<channel, sent, repaints>>
    /\ UNCHANGED <<clock, ticks, listenerVars, rx_alive, consumerVars>>

\* Variant: an empty batch is not sent.
HandlerLineSkipEmpty(c) ==
    /\ hpc[c] = "read"
    /\ Len(readLog[c]) < MaxLines
    /\ \E data \in LinesOf(c) :
         LET lines == ParseAndConvert(data, clock)
         IN /\ readLog' = [readLog EXCEPT ![c] = Append(@, [data |-> data, now |-> clock])]
            /\ IF lines = <<>>
               THEN UNCHANGED <<hpc, channel, sent, repaints>>
               ELSE IF rx_alive
               THEN /\ channel' = Append(channel, <<c, lines>>)
                    /\ sent' = Append(sent, <<c, lines>>)
                    /\ repaints' = [repaints EXCEPT ![c] = @ + 1]
                    /\ UNCHANGED hpc
               ELSE /\ hpc' = [hpc EXCEPT ![c] = "gone"]
                    /\ UNCHANGED <<channel, sent, repaints>>
    /\ UNCHANGED <<clock, ticks, listenerVars, rx_alive, consumerVars>>

\* Variant: the result of send() is ignored and the loop goes on.
HandlerLineIgnoreSendError(c) ==
    /\ hpc[c] = "read"
    /\ Len(readLog[c]) < MaxLines
    /\ \E data \in LinesOf(c) :
         LET lines == ParseAndConvert(data, clock)
         IN /\ readLog' = [readLog EXCEPT ![c] = Append(@, [data |-> data, now |-> clock])]
            /\ IF rx_alive
               THEN /\ channel' = Append(channel, <<c, lines>>)
                    /\ sent' = Append(sent, <<c, lines>>)
                    /\ repaints' = [repaints EXCEPT ![c] = @ + 1]
                    /\ UNCHANGED hpc
               ELSE UNCHANGED <<hpc, channel, sent, repaints>>
    /\ UNCHANGED <<clock, ticks, listenerVars, rx_alive, consumerVars>>

\* Variant: ctx.request_repaint() is called before sender.send().
HandlerLineRepaintFirst(c) ==
    /\ hpc[c] = "read"
    /\ Len(readLog[c]) < MaxLines
    /\ \E data \in LinesOf(c) :
         LET lines == ParseAndConvert(data, clock)
         IN /\ readLog' = [readLog EXCEPT ![c] = Append(@, [data |-> data, now |-> clock])]
            /\ repaints' = [repaints EXCEPT ![c] = @ + 1]
            /\ IF rx_alive
               THEN /\ channel' = Append(channel, <<c, lines>>)
                    /\ sent' = Append(sent, <<c, lines>>)
                    /\ UNCHANGED hpc
               ELSE /\ hpc' = [hpc EXCEPT ![c] = "gone"]
                    /\ UNCHANGED <<channel, sent>>
    /\ UNCHANGED <<clock, ticks, listenerVars, rx_alive, consumerVars>>

\* One pass of the loop body for Ok(data): parse, convert, collect into `lines`
\* (all local to the thread), then sender.send((socket_addr, lines)), which fails
\* exactly when the receiver is dropped: on failure the handler returns, on
\* success it calls ctx.request_repaint() and goes back to reader.lines().
HandlerLine(c) ==
    /\ hpc[c] = "read"
    /\ Len(readLog[c]) < MaxLines
    /\ \E data \in LinesOf(c) :
         LET lines == ParseAndConvert(data, clock)
         IN /\ readLog' = [readLog EXCEPT ![c] = Append(@, [data |-> data, now |-> clock])]
            /\ IF rx_alive
               THEN /\ channel' = Append(channel, <<c, lines>>)
                    /\ sent' = Append(sent, <<c, lines>>)
                    /\ repaints' = [repaints EXCEPT ![c] = @ + 1]
                    /\ UNCHANGED hpc
               ELSE /\ hpc' = [hpc EXCEPT ![c] = "gone"]
                    /\ UNCHANGED <<channel, sent, repaints>>
    /\ UNCHANGED <<clock, ticks, listenerVars, rx_alive, consumerVars>>

\* Variant: a read error brings the whole process down: every handler and
\* the listener stop with it.
HandlerReadErrAborts(c) ==
    /\ hpc[c] = "read"
    /\ hpc' = [d \in Conns |-> IF hpc[d] = "read" THEN "closed" ELSE hpc[d]]
    /\ listen_pc' = "closed"
    /\ UNCHANGED <<clock, ticks, late_accepts, rx_alive, repaints, readLog,
                   channel, consumerVars, sent>>

\* reader.lines() yields Err(e): log and break.
HandlerReadErr(c) ==
    /\ hpc[c] = "read"
    /\ hpc' = [hpc EXCEPT ![c] = "closed"]
    /\ UNCHANGED <<clock, ticks, listenerVars, rx_alive, repaints, readLog,
                   channel, consumerVars, sent>>

\* reader.lines() yields None: the peer closed the connection.
HandlerEof(c) ==
    /\ hpc[c] = "read"
    /\ hpc' = [hpc EXCEPT ![c] = "closed"]
    /\ UNCHANGED <<clock, ticks, listenerVars, rx_alive, repaints, readLog,
                   channel, consumerVars, sent>>

\* ------------------------------------------------------------ update()
\* update() begins: self.trim_time_series().  The rows and points of the
\* previous frame are gone (immediate-mode UI: each frame builds its own).
TrimTimeSeries ==
    /\ rx_alive
    /\ update_pc = "idle"
    /\ LET cutoff == WindowStart(clock)
           after == trim_older_than(time_series, cutoff)
       IN /\ time_series' = after
          /\ lastTrim' = [done |-> TRUE, before |-> time_series, cutoff |-> cutoff,
                          after |-> after, drained |-> Len(sent) - Len(channel)]
    /\ update_pc' = "recv"
    /\ debug_rows' = <<>>
    /\ plot_points' = <<>>
    /\ UNCHANGED <<clock, ticks, listenerVars, rx_alive, handlerVars, channel, sent>>

\* Variant: the newest queued item is taken first.
RecvItemNewestFirst ==
    /\ update_pc = "recv"
    /\ channel # <<>>
    /\ time_series' = PushAll(time_series, channel[Len(channel)][2])
    /\ channel' = SubSeq(channel, 1, Len(channel) - 1)
    /\ UNCHANGED <<clock, ticks, listenerVars, rx_alive, handlerVars, update_pc,
                   debug_rows, plot_points, lastTrim, sent>>

\* Variant: the time series is trimmed again after each item is appended.
RecvItemThenTrim ==
    /\ update_pc = "recv"
    /\ channel # <<>>
    /\ time_series' = trim_older_than(PushAll(time_series, Head(channel)[2]),
                                      WindowStart(clock))
    /\ channel' = Tail(channel)
    /\ UNCHANGED <<clock, ticks, listenerVars, rx_alive, handlerVars, update_pc,
                   debug_rows, plot_points, lastTrim, sent>>

\* Variant: the drain appends the oldest queued item and discards the rest
\* of what is queued.
RecvItemDropsRest ==
    /\ update_pc = "recv"
    /\ channel # <<>>
    /\ time_series' = PushAll(time_series, Head(channel)[2])
    /\ channel' = <<>>
    /\ UNCHANGED <<clock, ticks, listenerVars, rx_alive, handlerVars, update_pc,
                   debug_rows, plot_points, lastTrim, sent>>

\* recv_metrics: try_iter() hands out the oldest queued item
RecvItem ==
    /\ update_pc = "recv"
    /\ channel # <<>>
    /\ time_series' = PushAll(time_series, Head(channel)[2])
    /\ channel' = Tail(channel)
    /\ UNCHANGED <<clock, ticks, listenerVars, rx_alive, handlerVars, update_pc,
                   debug_rows, plot_points, lastTrim, sent>>

\* Variant: update() calls recv_metrics first and trim_time_series after it.
RecvEmptyThenTrim ==
    /\ update_pc = "recv"
    /\ channel = <<>>
    /\ time_series' = trim_older_than(time_series, WindowStart(clock))
    /\ update_pc' = "render"
    /\ UNCHANGED <<clock, ticks, listenerVars, rx_alive, handlerVars, channel,
                   debug_rows, plot_points, lastTrim, sent>>

\* Variant: iter() instead of try_iter(): the loop ends only when the channel
\* is empty and every sender has been dropped.
RecvEmptyBlocking ==
    /\ update_pc = "recv"
    /\ channel = <<>>
    /\ listen_pc = "closed"
    /\ \A c \in Conns : hpc[c] # "read"
    /\ update_pc' = "render"
    /\ UNCHANGED <<clock, ticks, listenerVars, rx_alive, handlerVars, channel,
                   time_series, debug_rows, plot_points, lastTrim, sent>>

\* recv_metrics: try_recv() finds the channel empty and try_iter() ends
RecvEmpty ==
    /\ update_pc = "recv"
    /\ channel = <<>>
    /\ update_pc' = "render"
    /\ UNCHANGED <<clock, ticks, listenerVars, rx_alive, handlerVars, channel,
                   time_series, debug_rows, plot_points, lastTrim, sent>>

\* show_debug_metrics, simple_plot, ctx.request_repaint(): update() returns.
\* lastTrim describes the trim of the running update() only.
Render ==
    /\ update_pc = "render"
    /\ debug_rows' = DebugRows(time_series)
    /\ plot_points' = PlotPoints(time_series, clock)
    /\ update_pc' = "idle"
    /\ lastTrim' = NoTrim
    /\ UNCHANGED <<clock, ticks, listenerVars, rx_alive, handlerVars, channel,
                   time_series, sent>>

\* The PatinaSystemMonitor is dropped (the window is closed): metrics_rx and
\* listen_thread_tx go with it.  update() borrows the monitor, so this happens
\* between two calls of it.
Shutdown ==
    /\ rx_alive
    /\ update_pc = "idle"
    /\ rx_alive' = FALSE
    /\ UNCHANGED <<clock, ticks, listenerVars, handlerVars, channel, consumerVars, sent>>

\* ------------------------------------------------------------ specification
ListenerNext == ListenerCheck \/ \E c \in Conns : AcceptOk(c) \/ AcceptErr(c)

HandlerNext ==
    \E c \in Conns :
        \/ HandlerLine(c)
        \/ HandlerReadErr(c)
        \/ HandlerEof(c)

ConsumerNext == TrimTimeSeries \/ RecvItem \/ RecvEmpty \/ Render

Next == Tick \/ ListenerNext \/ HandlerNext \/ ConsumerNext \/ Shutdown

Spec == Init /\ [][Next]_vars

LiveSpec == Spec /\ WF_vars(ConsumerNext)

\* ------------------------------------------------------------ reading the history
Datum(line) == TimeSeriesDatum(line.unix_timestamp, line)

Batch(item) == item[2]

\* the items the consumer has taken out of the channel so far
NumDrained == Len(sent) - Len(channel)
Drained == SubSeq(sent, 1, NumDrained)

\* every record the consumer has taken, in the order of channel arrival
RecordsOf(items) == Flatten(SeqMap(Batch, items))

\* the items of connection c, in the order they entered the channel
ItemsOf(c) ==
    LET FromC(item) == item[1] = c
    IN SelectSeq(sent, FromC)

\* the lines of connection c whose send found the receiver alive: only the
\* send of the last line read can have failed, and then the handler is "gone"
NumPushed(c) == Len(readLog[c]) - (IF hpc[c] = "gone" THEN 1 ELSE 0)

OkStatements(data) == SelectSeq(data, IsOk)

HasMalformed(data) == \E k \in 1..Len(data) : data[k] = ParseErr

IsValidLine(data) == data # <<>> /\ ~HasMalformed(data)

Sorted(data) ==
    \A i \in 1..Len(data) : \A j \in i..Len(data) :
        data[i].unix_timestamp <= data[j].unix_timestamp

\* ------------------------------------------------------------ C1
\* C1 (drain ordering): the channel holds the newest arrivals in arrival
\* order, and the Store ends with the records of the items drained so far, in
\* channel arrival order of the items and batch order inside each item; what
\* is missing from the Store was evicted from its front.
DrainOrder ==
    /\ Len(channel) <= Len(sent)
    /\ channel = LastN(sent, Len(channel))
    /\ Len(time_series) <= Len(RecordsOf(Drained))
    /\ time_series = LastN(SeqMap(Datum, RecordsOf(Drained)), Len(time_series))

\* handler 2's batch [r1, r2] entered the channel before handler 1's batch
\* [r3], both were drained, and the Store holds r1, r2, r3
DrainOrderWitness ==
    /\ Len(sent) = 2
    /\ sent[1][1] = 2 /\ Len(sent[1][2]) = 2
    /\ sent[2][1] = 1 /\ Len(sent[2][2]) = 1
    /\ channel = <<>>
    /\ time_series = SeqMap(Datum, sent[1][2] \o sent[2][2])

\* ------------------------------------------------------------ C2
\* C2 as stated: the trim leaves exactly the buffered records at or after
\* the cutoff, whatever the Store held.
TrimKeepsExactlyRecent ==
    lastTrim.done =>
        LET Recent(d) == d.unix_timestamp >= lastTrim.cutoff
        IN lastTrim.after = SelectSeq(lastTrim.before, Recent)

\* C2 amended: the trim, with cutoff = now - 66 s, removes the leading run of
\* records older than the cutoff and nothing else: every evicted record is
\* older than the cutoff, the first survivor is at or after it, the records
\* behind the first survivor stay whatever their timestamp; when the Store
\* was in timestamp order the survivors are exactly the records at or after
\* the cutoff.
TrimEvictsLeadingOlder ==
    lastTrim.done =>
        LET before == lastTrim.before
            after == lastTrim.after
            k == Len(before) - Len(after)
            Recent(d) == d.unix_timestamp >= lastTrim.cutoff
        IN /\ lastTrim.cutoff + 66 = clock
           /\ k >= 0
           /\ after = SubSeq(before, k + 1, Len(before))
           /\ \A i \in 1..k : before[i].unix_timestamp < lastTrim.cutoff
           /\ after # <<>> => after[1].unix_timestamp >= lastTrim.cutoff
           /\ Sorted(before) => after = SelectSeq(before, Recent)

\* a trim that evicted a record and left, behind a newer one, a record older
\* than the cutoff
TrimWitness ==
    /\ lastTrim.done
    /\ Len(lastTrim.after) < Len(lastTrim.before)
    /\ \E i \in 1..Len(lastTrim.after) :
           lastTrim.after[i].unix_timestamp < lastTrim.cutoff

\* ------------------------------------------------------------ C3
\* C3 (parse resilience): a handler stops pushing only when the consumer is
\* gone, never because of a malformed line: every line read while the
\* consumer exists has its item in the channel history; a malformed statement
\* contributes no record, and every valid line read after a malformed line
\* arrives with all its statements converted.
ParseResilience ==
    \A c \in Conns :
        \A i \in 1..Len(readLog[c]) :
            HasMalformed(readLog[c][i].data) =>
                /\ i <= NumPushed(c) =>
                     /\ i <= Len(ItemsOf(c))
                     /\ Len(ItemsOf(c)[i][2]) = Len(OkStatements(readLog[c][i].data))
                /\ \A j \in (i + 1)..NumPushed(c) :
                     IsValidLine(readLog[c][j].data) =>
                        /\ j <= Len(ItemsOf(c))
                        /\ Len(ItemsOf(c)[j][2]) = Len(readLog[c][j].data)
                        /\ \A k \in 1..Len(readLog[c][j].data) :
                              ItemsOf(c)[j][2][k].measurement =
                                  readLog[c][j].data[k][2].measurement

\* a connection sent a malformed line and then a valid one, whose record
\* went through the channel into the Store
ParseResilienceWitness ==
    \E c \in Conns :
        /\ Len(readLog[c]) = 2 /\ Len(ItemsOf(c)) = 2
        /\ readLog[c][1].data = <<ParseErr>>
        /\ IsValidLine(readLog[c][2].data)
        /\ ItemsOf(c)[1][2] = <<>>
        /\ Len(ItemsOf(c)[2][2]) = 1
        /\ time_series = SeqMap(Datum, ItemsOf(c)[2][2])

\* ------------------------------------------------------------ C4
\* the records appended since the latest trim_time_series
AppendedThisCycle == RecordsOf(SubSeq(sent, lastTrim.drained + 1, NumDrained))

ListenerStopsAfterShutdown == late_accepts <= 1

\* ------------------------------------------------------------ C6
\* what connection c is expected to have pushed, line by line as read
ExpectedBatch(entry) == ParseAndConvert(entry.data, entry.now)
ExpectedRecords(c) == Flatten(SeqMap(ExpectedBatch, SubSeq(readLog[c], 1, NumPushed(c))))

\* the drained records, each with the connection it came from
TagItem(item) ==
    LET Tag(line) == <<item[1], line>>
    IN SeqMap(Tag, item[2])
TaggedDrained == Flatten(SeqMap(TagItem, Drained))
TaggedStore == LastN(TaggedDrained, Len(time_series))
StoreRecordsOf(c) ==
    LET FromC(t) == t[1] = c
        Untag(t) == t[2]
    IN SeqMap(Untag, SelectSeq(TaggedStore, FromC))

\* C6 (per-connection ordering): the batches of a connection enter the
\* channel in the order its lines were read, with the records of a batch in
\* parse order, and the records of the connection that are in the Store are a
\* contiguous run of what it sent, in the order it sent them.
PerConnectionOrder ==
    /\ Len(time_series) <= Len(TaggedDrained)
    /\ \A i \in 1..Len(time_series) : time_series[i] = Datum(TaggedStore[i][2])
    /\ \A c \in Conns :
         /\ RecordsOf(ItemsOf(c)) = ExpectedRecords(c)
         /\ \E a \in 0..Len(ExpectedRecords(c)) :
              StoreRecordsOf(c) = SubSeq(ExpectedRecords(c), a + 1, a + Len(StoreRecordsOf(c)))

\* connection 1 pushed a record, then connection 2 pushed a batch, then
\* connection 1 pushed again, and the Store holds them interleaved that way
PerConnectionOrderWitness ==
    /\ Len(sent) = 3
    /\ sent[1][1] = 1 /\ sent[2][1] = 2 /\ sent[3][1] = 1
    /\ Len(sent[1][2]) = 1 /\ Len(sent[2][2]) = 2 /\ Len(sent[3][2]) = 1
    /\ sent[1][2] # sent[3][2]
    /\ Len(time_series) = 4
    /\ StoreRecordsOf(1) = sent[1][2] \o sent[3][2]

\* ------------------------------------------------------------ C7
\* C7 (one item per line): every line a handler read while the consumer
\* exists is one item of the channel history, carrying the handler's
\* connection and exactly the records of that line's well-formed statements
\* (none for a line without any), so no item merges two lines.
OneItemPerLine ==
    /\ \A n \in 1..Len(sent) : sent[n][1] \in Conns
    /\ \A c \in Conns :
         /\ Len(ItemsOf(c)) = NumPushed(c)
         /\ \A i \in 1..NumPushed(c) :
              LET oks == OkStatements(readLog[c][i].data)
                  batch == ItemsOf(c)[i][2]
              IN /\ Len(batch) = Len(oks)
                 /\ \A k \in 1..Len(oks) :
                      /\ batch[k].measurement = oks[k][2].measurement
                      /\ batch[k].fields = oks[k][2].field_set

\* a connection read a line with one record and a line with none: two items
OneItemPerLineWitness ==
    \E c \in Conns :
        /\ Len(readLog[c]) = 2
        /\ Len(ItemsOf(c)) = 2
        /\ Len(ItemsOf(c)[1][2]) = 1
        /\ ItemsOf(c)[2][2] = <<>>

\* ------------------------------------------------------------ C8
\* all that was ever read is one line, a single well-formed statement with a
\* non-negative wire timestamp, and its batch has been pushed
SingleLinePushed(c) ==
    /\ Len(readLog[c]) = 1
    /\ \A d \in Conns \ {c} : readLog[d] = <<>>
    /\ Len(readLog[c][1].data) = 1
    /\ IsOk(readLog[c][1].data[1])
    /\ readLog[c][1].data[1][2].timestamp.some
    /\ readLog[c][1].data[1][2].timestamp.ns >= 0
    /\ Len(sent) = 1

WireLine(c) == readLog[c][1].data[1][2]

\* C8 (end-to-end delivery): when the refresh cycle that drained the single
\* pushed line ends, the Store holds exactly that record, the query for the
\* line's measurement and tag pair returns exactly it, and the plot has its
\* one point (timestamp offset, 100 - usage_idle).
EndToEnd ==
    [][\A c \in Conns :
          ( /\ SingleLinePushed(c)
            /\ HasTag(WireLine(c).tag_set.v, "cpu", "cpu-total")
            /\ update_pc = "render" /\ update_pc' = "idle"
            /\ lastTrim.drained = 0 /\ channel = <<>> )
          => /\ Len(time_series') = 1
             /\ time_series'[1].unix_timestamp = WireLine(c).timestamp.ns
             /\ time_series'[1].data.measurement = WireLine(c).measurement
             /\ time_series'[1].data.tags = WireLine(c).tag_set.v
             /\ debug_rows' = time_series'
             /\ plot_points' = << <<WireLine(c).timestamp.ns - clock,
                                    100 - WireLine(c).field_set[1][2].v>> >>
      ]_vars

\* the cycle that drained the single line has ended; its timestamp is older
\* than the window and the record is in the Store and in the query's result
EndToEndWitness ==
    /\ SingleLinePushed(1)
    /\ WireLine(1).timestamp.ns = TsStale
    /\ update_pc = "idle"
    /\ Len(time_series) = 1
    /\ time_series[1].unix_timestamp = TsStale
    /\ debug_rows = time_series
    /\ Len(plot_points) = 1

\* ------------------------------------------------------------ C9
\* C9 (timestamp default): every well-formed statement is converted, and the
\* record's timestamp is the wire timestamp when there is one and it is not
\* negative, else the clock's value when the line was converted.
TimestampDefault ==
    \A c \in Conns :
        \A i \in 1..Len(ItemsOf(c)) :
            i <= Len(readLog[c]) /\
            LET oks == OkStatements(readLog[c][i].data)
                batch == ItemsOf(c)[i][2]
            IN /\ Len(batch) = Len(oks)
               /\ \A k \in 1..Len(batch) :
                    LET wire == oks[k][2].timestamp
                    IN /\ batch[k].unix_timestamp >= 0
                       /\ (wire.some /\ wire.ns >= 0)
                            => batch[k].unix_timestamp = wire.ns
                       /\ (~wire.some \/ wire.ns < 0)
                            => batch[k].unix_timestamp = readLog[c][i].now

\* a line converted after the clock moved carried a statement without a
\* timestamp and one with a negative timestamp: both records have the clock's
\* value at conversion
TimestampDefaultWitness ==
    \E c \in Conns :
        /\ Len(ItemsOf(c)) >= 1
        /\ readLog[c][1].now = Clock0 + ClockStep
        /\ readLog[c][1].data = <<Mem, Cpu0>>
        /\ ItemsOf(c)[1][2][1].unix_timestamp = Clock0 + ClockStep
        /\ ItemsOf(c)[1][2][2].unix_timestamp = Clock0 + ClockStep

\* ------------------------------------------------------------ C10
\* a handler that is connected and may push further items
CanPushMore == \E c \in Conns : hpc[c] = "read" /\ Len(readLog[c]) < MaxLines

ConsumerGoneTermination ==
    [][\A c \in Conns :
          /\ (Len(readLog'[c]) > Len(readLog[c]) /\ ~rx_alive)
                => /\ hpc'[c] = "gone"
                   /\ sent' = sent /\ channel' = channel
                   /\ repaints'[c] = repaints[c]
          /\ hpc[c] = "gone"
                => /\ hpc'[c] = "gone"
                   /\ readLog'[c] = readLog[c]
                   /\ repaints'[c] = repaints[c]
                   /\ ItemsOf(c)' = ItemsOf(c)
      ]_vars

\* a handler pushed one line, the monitor was dropped, and its second line's
\* push failed: one item, one redraw, two lines read
ConsumerGoneWitness ==
    \E c \in Conns :
        /\ hpc[c] = "gone"
        /\ Len(readLog[c]) = 2
        /\ Len(ItemsOf(c)) = 1
        /\ repaints[c] = 1

\* ------------------------------------------------------------ C12
QueryMeasurements == {"cpu", "mem", "disk"}
QueryTagPairs ==
    {<<"cpu", "cpu-total">>, <<"cpu", "cpu0">>, <<"host", "h1">>,
     <<"host", "cpu0">>, <<"cpu", "h1">>}

Matches(d, m, kv) ==
    /\ d.data.measurement = m
    /\ kv \in {d.data.tags[i] : i \in DOMAIN d.data.tags}

MatchingIndexes(s, m, kv) == {i \in DOMAIN s : Matches(s[i], m, kv)}

\* r lists exactly the matching records of s, each once, in the order of s
IsFilterOf(r, s, m, kv) ==
    LET idx == MatchingIndexes(s, m, kv)
    IN /\ Len(r) = Cardinality(idx)
       /\ \A i \in idx : r[Cardinality({j \in idx : j <= i})] = s[i]

\* C12 (query filter): for every measurement name and tag pair the query over
\* the Store yields exactly the records with that measurement and that tag
\* pair, in Store order whatever their timestamps; the queries of a frame
\* (table rows and plot points) are such a result for cpu / cpu=cpu-total and
\* leave the Store as it was.
QueryFilter ==
    /\ [](\A m \in QueryMeasurements, kv \in QueryTagPairs :
             IsFilterOf(Query(time_series, m, kv[1], kv[2]), time_series, m, kv))
    /\ [][update_pc = "render"
            => /\ time_series' = time_series
               /\ update_pc' = "idle"
                    => /\ IsFilterOf(debug_rows', time_series, "cpu",
                                     <<"cpu", "cpu-total">>)
                       /\ Len(plot_points') = Len(debug_rows')
                       /\ \A i \in DOMAIN plot_points' :
                            plot_points'[i][1]
                               = debug_rows'[i].unix_timestamp - clock
         ]_vars

\* a frame whose rows are out of timestamp order, over a Store that also holds
\* a cpu record of another core and a record of another measurement
QueryFilterWitness ==
    /\ update_pc = "idle"
    /\ Len(debug_rows) = 2
    /\ debug_rows[1].unix_timestamp > debug_rows[2].unix_timestamp
    /\ \E i \in DOMAIN time_series :
          /\ time_series[i].data.measurement = "cpu"
          /\ ~Matches(time_series[i], "cpu", <<"cpu", "cpu-total">>)
    /\ \E i \in DOMAIN time_series : time_series[i].data.measurement = "mem"

\* ------------------------------------------------------------ C13
ProjectionNames ==
    {"used", "delta", "total", "free", "used_percent", "huge_pages", "swap",
     "unit", "usage_idle", "absent"}
ProjectionDefaults == {0, -1, 42}

\* the integer field f projects to the very integer it holds
IntegerAsItself(f, p) ==
    IF f.hi = 0 THEN p = f.v ELSE p = [hi |-> f.hi, lo |-> f.v]

\* the integer field f projects to an f64 nearest to it: itself up to 2^53,
\* an even integer at distance at most 1 between 2^53 and 2^54
IntegerAsNearestF64(f, p) ==
    IF f.hi = 0 THEN p = f.v
    ELSE /\ (p.hi - f.hi) * Radix + (p.lo - f.v) \in -1..1
         /\ f.hi < ExactHi => p.lo = f.v
         /\ f.hi >= ExactHi => p.lo % 2 = 0

\* every buffered record projects every name as the claim lists it, integers
\* following IntRule
ProjectsAs(IntRule(_, _)) ==
    \A i \in DOMAIN time_series, name \in ProjectionNames,
       default \in ProjectionDefaults :
        LET r == time_series[i].data
            hits == {j \in DOMAIN r.fields : r.fields[j][1] = name}
            p == get_field_as_f64(r, name, default)
        IN IF hits = {} THEN p = default
           ELSE LET f == r.fields[CHOOSE j \in hits : \A k \in hits : j <= k][2]
                IN /\ f.kind = "Boolean" => p = (IF f.v THEN 1 ELSE 0)
                   /\ f.kind = "String" => p = 0
                   /\ f.kind = "F64" => p = f.v
                   /\ f.kind \in {"I64", "U64"} => IntRule(f, p)

\* C13 as stated (numeric projection): absent field gives the default, true
\* gives 1, false gives 0, text gives 0, and every integer or float field gives
\* its own numeric value.
NumericProjectionExact == ProjectsAs(IntegerAsItself)

\* C13 as the code has it (numeric projection): absent field gives the default,
\* true gives 1, false gives 0, text gives 0, a float gives itself, and an
\* integer gives the f64 nearest to it, which is the integer itself only up
\* to 2^53.
NumericProjection == ProjectsAs(IntegerAsNearestF64)

\* a buffered mem record: its boolean, text, absent and small integer fields
\* project as listed, its u64 field 2^53 + 1 projects to 2^53
NumericProjectionWitness ==
    \E i \in DOMAIN time_series :
        LET r == time_series[i].data
        IN /\ r.measurement = "mem"
           /\ get_field_as_f64(r, "huge_pages", 0) = 1
           /\ get_field_as_f64(r, "swap", 42) = 0
           /\ get_field_as_f64(r, "unit", 42) = 0
           /\ get_field_as_f64(r, "absent", 42) = 42
           /\ get_field_as_f64(r, "used", 0) = 7
           /\ get_field_as_f64(r, "total", 0) = [hi |-> ExactHi, lo |-> 0]

\* ------------------------------------------------------------ C14
\* C14 (accept failure is skip-and-continue): a failed accept leaves the
\* listener in its accept loop and starts nothing: the refused attempt never
\* reads, pushes or signals, and no other connection changes; the next attempt
\* can still be accepted, and an accept starts the handler of that connection
\* and of no other.
AcceptFailureSkips ==
    /\ [](\A c \in Conns :
             /\ hpc[c] = "refused"
                   => readLog[c] = <<>> /\ repaints[c] = 0 /\ ItemsOf(c) = <<>>
             /\ (listen_pc = "accept" /\ NextAttempt(c)) => ENABLED AcceptOk(c))
    /\ [][\A c \in Conns :
             /\ hpc[c] = "refused" => hpc'[c] = "refused"
             /\ (hpc[c] = "none" /\ hpc'[c] # "none")
                   => /\ hpc'[c] \in {"refused", "read"}
                      /\ listen_pc' = "accept"
                      /\ \A d \in Conns \ {c} : hpc'[d] = hpc[d]
         ]_vars

\* the first connection attempt failed, the second was accepted and its
\* handler has pushed a line
AcceptFailureWitness ==
    \E c, d \in Conns :
        /\ c < d
        /\ hpc[c] = "refused"
        /\ hpc[d] = "read"
        /\ Len(ItemsOf(d)) >= 1

\* ------------------------------------------------------------ C15
Terminated(c) == hpc[c] \in {"closed", "gone"}

\* C15 (handler isolation): the step in which a handler terminates (end of
\* stream, read error or failed push) changes nothing of the listener, of the
\* other handlers, of the channel or of the Store; once a handler has
\* terminated, any other handler can still read its next line and, the
\* receiver being alive, push it, the listener can still accept the next
\* connection, and a queued item of the terminated handler is still taken by
\* the drain and its records appended.
HandlerIsolation ==
    /\ [][\A c \in Conns :
             (hpc[c] = "read" /\ Terminated(c)')
                => /\ UNCHANGED <<listenerVars, rx_alive, channel, sent, time_series>>
                   /\ \A d \in Conns \ {c} :
                         /\ hpc'[d] = hpc[d]
                         /\ readLog'[d] = readLog[d]
                         /\ repaints'[d] = repaints[d]
         ]_vars
    /\ [](\A c \in Conns : Terminated(c) =>
             /\ \A d \in Conns \ {c} :
                   /\ (hpc[d] = "read" /\ Len(readLog[d]) < MaxLines)
                         => /\ ENABLED HandlerLine(d)
                            /\ rx_alive
                                 => ENABLED (/\ HandlerLine(d)
                                             /\ Len(channel') = Len(channel) + 1
                                             /\ channel'[Len(channel')][1] = d)
                   /\ (listen_pc = "accept" /\ NextAttempt(d)) => ENABLED AcceptOk(d)
             /\ Len(SelectSeq(channel, LAMBDA item : item[1] = c))
                   = Len(ItemsOf(c)) - Len(SelectSeq(Drained, LAMBDA item : item[1] = c))
             /\ (update_pc = "recv" /\ channel # <<>> /\ Head(channel)[1] = c)
                   => ENABLED (/\ RecvItem
                               /\ time_series'
                                    = time_series \o SeqMap(Datum, Head(channel)[2])))

\* a handler has terminated with an item still queued, which the running
\* drain is about to take, while another handler is still reading
HandlerIsolationWitness ==
    \E c, d \in Conns :
        /\ c # d
        /\ hpc[c] = "closed"
        /\ hpc[d] = "read"
        /\ Len(readLog[d]) < MaxLines
        /\ update_pc = "recv"
        /\ channel # <<>>
        /\ Head(channel)[1] = c
        /\ Head(channel)[2] # <<>>

\* ------------------------------------------------------------ C16
\* the step is the trim that opens an update()
IsTrimStep == update_pc = "idle" /\ update_pc' = "recv"

\* C16 (trim evicts only from the front): the trim leaves a suffix of the
\* Store, empty or starting with a record at or after the cutoff, and takes no
\* record at or after the cutoff, one exactly at the cutoff included; no other
\* step takes any record out of the Store.
TrimFrontOnly ==
    [][LET cutoff == WindowStart(clock)
           k == Len(time_series) - Len(time_series')
       IN IF IsTrimStep
          THEN /\ k >= 0
               /\ time_series' = SubSeq(time_series, k + 1, Len(time_series))
               /\ time_series' = <<>> \/ time_series'[1].unix_timestamp >= cutoff
               /\ \A i \in DOMAIN time_series :
                     time_series[i].unix_timestamp >= cutoff => i > k
          ELSE /\ k <= 0
               /\ SubSeq(time_series', 1, Len(time_series)) = time_series
      ]_vars

\* a trim evicted an older record and stopped at a record whose timestamp is
\* exactly the cutoff
TrimFrontOnlyWitness ==
    /\ lastTrim.done
    /\ lastTrim.after # <<>>
    /\ Len(lastTrim.after) < Len(lastTrim.before)
    /\ lastTrim.after[1].unix_timestamp = lastTrim.cutoff
    /\ time_series = lastTrim.after

\* ------------------------------------------------------------ C17
\* C17 (no loss, no duplication across the handoff): an item enters the
\* channel by a successful push and leaves it only when the drain takes it,
\* the oldest first, appending each of its records once to the Store; records
\* are appended to the Store in no other step; a push is accepted while a
\* drain is running and leaves the Store as it is; and, the consumer
\* refreshing again and again, whatever is queued is eventually taken, unless
\* the consumer is gone.
NoLossNoDuplication ==
    /\ [][/\ channel' # channel
             => \/ /\ Len(sent') = Len(sent) + 1
                   /\ sent' = Append(sent, sent'[Len(sent')])
                   /\ channel' = Append(channel, sent'[Len(sent')])
                   /\ time_series' = time_series
                   /\ update_pc' = update_pc
                \/ /\ update_pc = "recv"
                   /\ channel = <<Head(channel)>> \o channel'
                   /\ time_series' = time_series \o SeqMap(Datum, Head(channel)[2])
                   /\ sent' = sent
          /\ Len(time_series') > Len(time_series) => channel' = Tail(channel)
          /\ sent' # sent => channel' # channel
         ]_vars
    /\ (channel # <<>>) ~> (channel = <<>> \/ ~rx_alive)

\* a drain is running: it has taken and appended an item of this cycle, and
\* items of both connections are in the history, one still queued behind
NoLossWitness ==
    /\ rx_alive
    /\ update_pc = "recv"
    /\ lastTrim.done
    /\ NumDrained > lastTrim.drained
    /\ channel # <<>>
    /\ \A c \in Conns : ItemsOf(c) # <<>>
    /\ RecordsOf(Drained) # <<>>
    /\ time_series = lastTrim.after
                        \o SeqMap(Datum, RecordsOf(SubSeq(sent, lastTrim.drained + 1, NumDrained)))

\* ------------------------------------------------------------ C18
\* C18 (redraw notification follows each successful push): a handler has
\* requested as many redraws as it has pushed items; each request is made in
\* the loop pass that pushed the item of the line just read, empty batch or
\* not, and in no other step; when a handler reads a line, the redraw of every
\* line it read before has been requested.
RedrawFollowsPush ==
    /\ [](\A c \in Conns : repaints[c] = Len(ItemsOf(c)))
    /\ [][\A c \in Conns :
             /\ repaints'[c] # repaints[c]
                   => /\ repaints'[c] = repaints[c] + 1
                      /\ Len(readLog'[c]) = Len(readLog[c]) + 1
                      /\ rx_alive
                      /\ LET read == readLog'[c][Len(readLog'[c])]
                         IN channel' = Append(channel,
                                <<c, ParseAndConvert(read.data, read.now)>>)
             /\ Len(ItemsOf(c)') > Len(ItemsOf(c)) => repaints'[c] = repaints[c] + 1
             /\ Len(readLog'[c]) > Len(readLog[c]) => repaints[c] = Len(readLog[c])
         ]_vars

\* a handler has pushed two items, one of them with an empty batch, and has
\* requested two redraws
RedrawWitness ==
    \E c \in Conns :
        /\ repaints[c] = 2
        /\ Len(ItemsOf(c)) = 2
        /\ \E i \in 1..2 : ItemsOf(c)[i][2] = <<>>
        /\ \E i \in 1..2 : ItemsOf(c)[i][2] # <<>>

\* ------------------------------------------------------------ C19
\* cutoffs around every timestamp the producers send and every cutoff the
\* program computes
Cutoffs == {TsStale, WindowStart(Clock0), TsEdge, TsEdge + 1, TsNew + 1}

\* C19 (trim is idempotent and monotone in the cutoff): for every Store
\* content the program reaches and cutoffs c1 <= c2, trimming at c1 twice gives
\* what trimming at c1 once gives, and trimming at c1 and then at c2 gives what
\* trimming at c2 alone gives.
TrimIdempotentMonotone ==
    \A c1, c2 \in Cutoffs :
        c1 <= c2 =>
            LET once == trim_older_than(time_series, c1)
            IN /\ trim_older_than(once, c1) = once
               /\ trim_older_than(once, c2) = trim_older_than(time_series, c2)

\* a Store from which the trim at one cutoff takes a record and the trim at
\* a later cutoff takes more, leaving some
TrimIdempotentWitness ==
    \E c1, c2 \in Cutoffs :
        /\ c1 < c2
        /\ Len(trim_older_than(time_series, c1)) < Len(time_series)
        /\ Len(trim_older_than(time_series, c2))
              < Len(trim_older_than(time_series, c1))
        /\ trim_older_than(time_series, c2) # <<>>

====
